---- MODULE Spec2Model ----
(***************************************************************************)
(* peektab: format detection, delimiter sniffing, cell/table rendering and *)
(* the command layer (show, schema, stats, sample, columns, convert, info).*)
(* Text is modelled as sequences of one-character strings.  The dataframe  *)
(* engine is external: its readers return a frame chosen from a bounded    *)
(* set or raise; head/sample/fetch follow the engine's documented results. *)
(***************************************************************************)
EXTENDS Integers, Sequences, FiniteSets, TLC

VARIABLES pc, op, args, ret, loaded, trace, exit_code

vars == <<pc, op, args, ret, loaded, trace, exit_code>>

\* ------------------------------------------------------------ bounds
MaxLineLen == 3
MaxLines == 2
MaxHeight == 4
MaxRowsArg == 4
MaxSampleN == 4
MaxDistinct == 22
MaxTopK == 22
MaxTinyCol == 3
MaxStrLen == 82

\* ------------------------------------------------------------ text helpers
\* Python's None for Optional[str] parameters: a value no text equals.
None == <<"None">>

Truthy(s) == s # None /\ s # <<>>

SetMin(S) == CHOOSE x \in S : \A y \in S : x <= y

SetMax(S) == CHOOSE x \in S : \A y \in S : x >= y

Upper == <<"A","B","C","D","E","F","G","H","I","J","K","L","M",
           "N","O","P","Q","R","S","T","U","V","W","X","Y","Z">>

Lowercase == <<"a","b","c","d","e","f","g","h","i","j","k","l","m",
               "n","o","p","q","r","s","t","u","v","w","x","y","z">>

LowerChar(c) ==
    IF \E i \in DOMAIN Upper : Upper[i] = c
    THEN Lowercase[CHOOSE i \in DOMAIN Upper : Upper[i] = c]
    ELSE c

\* str.lower()
lower(s) == [i \in 1..Len(s) |-> LowerChar(s[i])]

\* s.rfind(c), 1-based; 0 when absent
rfind(s, c) ==
    LET hits == {i \in 1..Len(s) : s[i] = c}
    IN IF hits = {} THEN 0 ELSE SetMax(hits)

\* os.path.splitext(path)[1]: the text from the last dot of the last path
\* component on, unless that component has only leading dots before it.
splitext_ext(path) ==
    LET sepIndex == rfind(path, "/")
        dotIndex == rfind(path, ".")
    IN IF dotIndex > sepIndex
          /\ \E k \in (sepIndex + 1)..(dotIndex - 1) : path[k] # "."
       THEN SubSeq(path, dotIndex, Len(path))
       ELSE <<>>

\* os.path.splitext(dst)[1].lower().lstrip(".")
lstrip_dot(s) ==
    LET keep == {i \in 1..Len(s) : s[i] # "."}
    IN IF keep = {} THEN <<>> ELSE SubSeq(s, SetMin(keep), Len(s))

COMMA == ","

TAB == "\t"

SEMI == ";"

IsSpace(c) == c \in {" ", TAB}

\* str.strip()
strip(s) ==
    LET nz == {i \in 1..Len(s) : ~IsSpace(s[i])}
    IN IF nz = {} THEN <<>> ELSE SubSeq(s, SetMin(nz), SetMax(nz))

\* str.count(c)
count(s, c) == Cardinality({i \in 1..Len(s) : s[i] = c})

\* ------------------------------------------------------------ format tags
CSV == <<"c","s","v">>

NDJSON == <<"n","d","j","s","o","n">>

PARQUET == <<"p","a","r","q","u","e","t">>

TSV == <<"t","s","v">>

JSONL == <<"j","s","o","n","l">>

PQ == <<"p","q">>

\* ------------------------------------------------------------ utils.py
\* A variant of detect_format that compares the extension as written,
\* without lower-casing it; C4_DetectFormat tells the two apart.
detect_format_nolower(path, fmt) ==
    IF Truthy(fmt) THEN lower(fmt)
    ELSE LET ext == splitext_ext(path)
         IN IF ext \in {<<".">> \o CSV, <<".">> \o TSV} THEN CSV
            ELSE IF ext \in {<<".">> \o JSONL, <<".">> \o NDJSON} THEN NDJSON
            ELSE IF ext \in {<<".">> \o PARQUET, <<".">> \o PQ} THEN PARQUET
            ELSE CSV

detect_format(path, fmt) ==
    IF Truthy(fmt) THEN lower(fmt)
    ELSE LET ext == lower(splitext_ext(path))
         IN IF ext \in {<<".">> \o CSV, <<".">> \o TSV} THEN CSV
            ELSE IF ext \in {<<".">> \o JSONL, <<".">> \o NDJSON} THEN NDJSON
            ELSE IF ext \in {<<".">> \o PARQUET, <<".">> \o PQ} THEN PARQUET
            ELSE CSV

\* max(counts, key=counts.get) if any(counts.values()) else ","
\* (dict order: comma, tab, semicolon; max keeps the first maximal key)
pick_delimiter(line) ==
    LET keys == <<COMMA, TAB, SEMI>>
        cnt(k) == count(line, k)
        best == SetMax({cnt(keys[i]) : i \in 1..3})
    IN IF best = 0 THEN <<COMMA>>
       ELSE <<keys[SetMin({i \in 1..3 : cnt(keys[i]) = best})]>>

RECURSIVE sniff_from(_, _)
sniff_from(lines, i) ==
    IF i > Len(lines) THEN <<COMMA>>
    ELSE LET line == strip(lines[i])
         IN IF line = <<>> THEN sniff_from(lines, i + 1)
            ELSE pick_delimiter(line)

\* sniff_delimiter(path), on the lines of the file at path
sniff_delimiter(lines) == sniff_from(lines, 1)

\* ------------------------------------------------------------ cell values
\* A cell value: kind is the Python type of the value, s its str() form for
\* text and compound values, v its number for int and (integer-valued) float.
Cell(kind, s, v) == [kind |-> kind, s |-> s, v |-> v]

NoneCell == Cell("None", <<>>, 0)

IntCell(n) == Cell("int", <<>>, n)

FloatCell(n) == Cell("float", <<>>, n)

StrCell(s) == Cell("str", s, 0)

CompoundKinds == {"list", "tuple", "set", "dict"}

DigitChars == <<"0","1","2","3","4","5","6","7","8","9">>

RECURSIVE Digits(_)
Digits(n) ==
    IF n < 10 THEN <<DigitChars[n + 1]>>
    ELSE Digits(n \div 10) \o <<DigitChars[(n % 10) + 1]>>

\* str(n) for an int
str_int(n) == IF n < 0 THEN <<"-">> \o Digits(-n) ELSE Digits(n)

RECURSIVE Pow10(_)
Pow10(k) == IF k = 0 THEN 1 ELSE 10 * Pow10(k - 1)

rstrip_zeros(s) ==
    LET keep == {i \in 1..Len(s) : s[i] # "0"}
    IN IF keep = {} THEN <<>> ELSE SubSeq(s, 1, SetMax(keep))

\* f"{val:.6g}" for an integer-valued float: below 10^6 the fixed form with
\* the trailing zeros and the point removed; from 10^6 on the exponent form
\* with the mantissa rounded half-even to 6 significant digits.
format_6g(v) ==
    LET a == IF v < 0 THEN -v ELSE v
        sign == IF v < 0 THEN <<"-">> ELSE <<>>
        nd == Len(Digits(a))
        scale == Pow10(nd - 6)
        q == a \div scale
        r == a % scale
        up == 2 * r > scale \/ (2 * r = scale /\ q % 2 = 1)
        m0 == IF up THEN q + 1 ELSE q
        carry == m0 = 1000000
        m == IF carry THEN 100000 ELSE m0
        X == IF carry THEN nd ELSE nd - 1
        mant == Digits(m)
        frac == rstrip_zeros(SubSeq(mant, 2, 6))
        expo == IF X < 10 THEN <<"0">> \o Digits(X) ELSE Digits(X)
    IN IF a < 1000000 THEN sign \o Digits(a)
       ELSE sign \o <<mant[1]>>
                 \o (IF frac = <<>> THEN <<>> ELSE <<".">> \o frac)
                 \o <<"e", "+">> \o expo

\* The literal returned for None (three characters in the source file).
NONE_MARK == <<"U+00E2", "U+02C6", "U+2026">>

ELLIPSIS == <<".", ".", ".">>

\* str(val) for the values that reach the last line of repr_cell
str_of(val) == IF val.kind = "int" THEN str_int(val.v) ELSE val.s

\* A variant of repr_cell that truncates at 80 characters already
\* (len(s) < 80); C10_CompoundCell tells the two apart.
repr_cell_lt(val) ==
    IF val.kind = "None" THEN NONE_MARK
    ELSE IF val.kind = "float" THEN format_6g(val.v)
    ELSE IF val.kind \in CompoundKinds
         THEN IF Len(val.s) < 80 THEN val.s
              ELSE SubSeq(val.s, 1, 77) \o ELLIPSIS
    ELSE str_of(val)

repr_cell(val) ==
    IF val.kind = "None" THEN NONE_MARK
    ELSE IF val.kind = "float" THEN format_6g(val.v)
    ELSE IF val.kind \in CompoundKinds
         THEN IF Len(val.s) <= 80 THEN val.s
              ELSE SubSeq(val.s, 1, 77) \o ELLIPSIS
    ELSE str_of(val)

\* ------------------------------------------------------------ frames
\* A frame of the engine: column names, dtypes and the columns' values.
Frame(columns, dtypes, cols) ==
    [columns |-> columns, dtypes |-> dtypes, cols |-> cols]

height(df) == IF Len(df.cols) = 0 THEN 0 ELSE Len(df.cols[1])

\* df.iter_rows()
iter_rows(df) ==
    [i \in 1..height(df) |-> [j \in 1..Len(df.cols) |-> df.cols[j][i]]]

\* The first k rows of a frame
take_rows(df, k) ==
    Frame(df.columns, df.dtypes,
          [j \in 1..Len(df.cols) |-> SubSeq(df.cols[j], 1, k)])

\* DataFrame.head(n): the first n rows; for n < 0 all rows but the last |n|.
head(df, n) ==
    LET h == height(df)
        k == IF n >= 0 THEN (IF n < h THEN n ELSE h)
             ELSE (IF h + n > 0 THEN h + n ELSE 0)
    IN take_rows(df, k)

DEFAULT_MAX_ROWS == 20

DEFAULT_MAX_WIDTH == 120

\* A title: its text, the number shown in it (0: none) and the name after it
Title(text, n, name) == [text |-> text, n |-> n, name |-> name]

Event(ev, kind, data) == [ev |-> ev, kind |-> kind, data |-> data]

\* The table render_table builds: one header per column (str(col)), one
\* row of display texts per row of the frame.
table_of(df, max_width, title) ==
    LET rows == iter_rows(df)
    IN [title |-> title,
        headers |-> df.columns,
        rows |-> [i \in 1..Len(rows) |->
                    [j \in 1..Len(rows[i]) |-> repr_cell(rows[i][j])]],
        width |-> max_width]

\* A variant of render_table without the truncation to max_rows;
\* C6_AtMostMaxRowsNonNegative tells the two apart.
render_table_notrunc(df, max_rows, max_width, title) ==
    Event("render_table", "render", table_of(df, max_width, title))

render_table(df, max_rows, max_width, title) ==
    LET shown == IF height(df) > max_rows THEN head(df, max_rows) ELSE df
    IN Event("render_table", "render", table_of(shown, max_width, title))

\* print_kv(title, pairs): a rule with the title, then one row per pair.
print_kv(title, pairs) ==
    Event("print_kv", "report", [title |-> title, rows |-> pairs])

NUMERIC_DTYPES == {"Int8", "Int16", "Int32", "Int64",
                   "UInt8", "UInt16", "UInt32", "UInt64",
                   "Float32", "Float64", "Decimal"}

\* "Decimal(p, s)" dtypes are matched through their repr
is_numeric_dtype(dt) == dt \in NUMERIC_DTYPES \/ dt = "Decimal(10,2)"

is_utf8_dtype(dt) == dt = "Utf8"

\* ------------------------------------------------------------ the engine
EmptyFrame == Frame(<<>>, <<>>, <<>>)

\* What the engine's reader makes of a file: a frame, or an error.
Parsed(df) == [ok |-> TRUE, df |-> df]

ParseError == [ok |-> FALSE, df |-> EmptyFrame]

\* A path at which no readable file exists.
Unreadable == << <<"ENOENT">> >>

Raised(exc, fmt, reader, separator) ==
    [status |-> "raise", exc |-> exc, fmt |-> fmt, reader |-> reader,
     separator |-> separator, infer |-> 0, df |-> EmptyFrame]

Loaded(fmt, reader, separator, infer, df) ==
    [status |-> "ok", exc |-> "", fmt |-> fmt, reader |-> reader,
     separator |-> separator, infer |-> infer, df |-> df]

\* pl.read_csv / pl.scan_csv: the separator must be a single byte; the
\* other readers take the path alone.  A missing file or malformed content
\* raises.
\* infer is the infer_schema_length hint (0: none passed).
engine_read(fmt, reader, separator, infer, file, parsed) ==
    IF file = Unreadable \/ ~parsed.ok
       \/ (separator # None /\ Len(separator) # 1)
    THEN Raised("EngineError", fmt, reader, separator)
    ELSE Loaded(fmt, reader, separator, infer, parsed.df)

\* The body shared by read_frame and scan_lazy: detect the format, sniff the
\* delimiter of delimited text when none is given, call the format's reader.
load(prefix, path, file, fmt, delimiter, infer, parsed) ==
    LET dispatch(f) ==
          IF f = CSV
          THEN IF delimiter = None
               THEN IF file = Unreadable
                    THEN Raised("OSError", f, "open", None)
                    ELSE engine_read(f, prefix \o "_csv",
                                     sniff_delimiter(file), infer, file, parsed)
               ELSE engine_read(f, prefix \o "_csv", delimiter, infer, file, parsed)
          ELSE IF f = NDJSON
          THEN engine_read(f, prefix \o "_ndjson", None, 0, file, parsed)
          ELSE IF f = PARQUET
          THEN engine_read(f, prefix \o "_parquet", None, 0, file, parsed)
          ELSE Raised("ValueError", f, "", None)
    IN dispatch(detect_format(path, fmt))

DEFAULT_INFER_SCHEMA_LENGTH == 2048

\* A variant of read_frame that takes tsv, jsonl and pq overrides as aliases
\* of csv, ndjson and parquet; C3_TokensByExtension tells the two apart.
read_frame_alias(path, file, fmt, delimiter, infer, parsed) ==
    LET f == detect_format(path, fmt)
        g == IF f = TSV THEN CSV ELSE IF f = JSONL THEN NDJSON
             ELSE IF f = PQ THEN PARQUET ELSE f
    IN load("read", path, file, g, delimiter, infer, parsed)

read_frame(path, file, fmt, delimiter, infer, parsed) ==
    load("read", path, file, fmt, delimiter, infer, parsed)

scan_lazy(path, file, fmt, delimiter, parsed) ==
    load("scan", path, file, fmt, delimiter, 0, parsed)

\* ------------------------------------------------------------ inputs
Stems == { <<"a">>, <<>>, <<"d", ".", "x", "/", "a">>, <<"d", "/">>,
           <<"a", ".", "c", "s", "v">> }

Exts == { <<>>, <<".">>,
          <<".", "c", "s", "v">>, <<".", "C", "S", "V">>,
          <<".", "t", "s", "v">>, <<".", "T", "s", "v">>,
          <<".", "j", "s", "o", "n", "l">>,
          <<".", "n", "d", "j", "s", "o", "n">>,
          <<".", "N", "D", "J", "S", "O", "N">>,
          <<".", "p", "a", "r", "q", "u", "e", "t">>,
          <<".", "p", "q">>, <<".", "P", "Q">>,
          <<".", "t", "x", "t">> }

Paths == {st \o e : st \in Stems, e \in Exts}

Overrides == { None, <<>>, CSV, <<"C", "S", "V">>, TSV, JSONL,
               <<"J", "s", "o", "n", "L">>, NDJSON, PARQUET, PQ,
               <<"x", "m", "l">> }

SixTokens == {CSV, TSV, NDJSON, JSONL, PARQUET, PQ}

Delimiters == { None, <<>>, <<COMMA>>, <<SEMI>>, <<TAB>>, <<"|", "|">> }

Alphabet == {COMMA, TAB, SEMI, " ", "x"}

RECURSIVE SeqsUpTo(_, _)
SeqsUpTo(S, n) ==
    IF n = 0 THEN {<<>>}
    ELSE LET shorter == SeqsUpTo(S, n - 1)
         IN shorter \cup {Append(q, x) : q \in shorter, x \in S}

Lines == SeqsUpTo(Alphabet, MaxLineLen)

BlankLines == {<<>>, <<TAB, " ">>}

TailLines == {<<SEMI, SEMI, SEMI, SEMI, SEMI>>, <<"x", TAB, "x">>}

\* Files: blank lines, then at most one line of any content, then at most
\* one more line.
Files ==
    {pre \o body :
        pre \in SeqsUpTo(BlankLines, MaxLines),
        body \in {<<>>} \cup {<<l>> : l \in Lines}
                 \cup {<<l, t>> : l \in Lines, t \in TailLines}}

\* read_frame / scan_lazy called directly
LoaderPaths == {<<"f">> \o e : e \in Exts}

LoaderFiles == { << <<"a", COMMA, "b">> >>, << <<>>, <<"x", SEMI, "y">> >>,
                 Unreadable }

\* Text of n characters whose i-th character is the last digit of i
LongStr(n) == [i \in 1..n |-> DigitChars[(i % 10) + 1]]

FloatVals == {0, 5, -25, 123456, 999999, 1000000, 1234565, 1234575,
              9999995, 123456789}

CellValues ==
    {NoneCell, IntCell(42), IntCell(-7)}
    \cup {FloatCell(v) : v \in FloatVals}
    \cup {Cell(k, LongStr(n), 0) :
            k \in CompoundKinds \cup {"str"}, n \in 0..MaxStrLen}

IntFrame(h) ==
    Frame(<< <<"a">> >>, <<"Int64">>, << [i \in 1..h |-> IntCell(i)] >>)

MixedFrame ==
    Frame(<< <<"k">>, <<"x">>, <<"l">> >>, <<"Utf8", "Float64", "List">>,
          << <<StrCell(<<"u">>), NoneCell, StrCell(<<"u">>)>>,
             <<FloatCell(5), FloatCell(1234565), NoneCell>>,
             <<Cell("list", LongStr(81), 0), Cell("list", LongStr(2), 0),
               NoneCell>> >>)

RenderFrames == {IntFrame(h) : h \in 0..MaxHeight} \cup {MixedFrame, EmptyFrame}

\* ------------------------------------------------------------ cli.py
\* What one run of a command leaves: the calls it made, in order, and the
\* exit status of the process.
Outcome(events, code) == [trace |-> events, exit_code |-> code]

LoaderEvent(name, r) ==
    Event(name, "loader",
          [fmt |-> r.fmt, reader |-> r.reader, separator |-> r.separator,
           infer |-> r.infer, status |-> r.status])

EngineEvent(name, data) == Event(name, "engine", data)

PrintEvent(data) == Event("console.print", "print", data)

\* An exception no command catches: the traceback, exit status 1.
Uncaught(events, exc) ==
    Outcome(events \o <<Event("raise", "exception", [exc |-> exc])>>, 1)

\* raise typer.Exit(code)
Exit(events, code) ==
    Outcome(events \o <<Event("typer.Exit", "exit", [code |-> code])>>, code)

\* The function returns: exit status 0.
Return(events) == Outcome(events, 0)

\* os.path.basename(path)
basename(path) == SubSeq(path, rfind(path, "/") + 1, Len(path))

RECURSIVE split_comma(_)
\* s.split(",")
split_comma(s) ==
    LET hits == {i \in 1..Len(s) : s[i] = COMMA}
    IN IF hits = {} THEN <<s>>
       ELSE <<SubSeq(s, 1, SetMin(hits) - 1)>>
            \o split_comma(SubSeq(s, SetMin(hits) + 1, Len(s)))

NonEmpty(t) == t # <<>>

\* [c.strip() for c in cols.split(",") if c.strip()]
selected_columns(cols) ==
    LET parts == split_comma(cols)
    IN SelectSeq([i \in 1..Len(parts) |-> strip(parts[i])], NonEmpty)

\* LazyFrame.select(names), resolved when the frame is fetched: an unknown
\* or repeated name is an error of the engine.
select_ok(df, names) ==
    /\ \A i \in 1..Len(names) : \E j \in 1..Len(df.columns) : df.columns[j] = names[i]
    /\ \A i, k \in 1..Len(names) : names[i] = names[k] => i = k

select_columns(df, names) ==
    LET at(i) == CHOOSE j \in 1..Len(df.columns) : df.columns[j] = names[i]
    IN Frame(names,
             [i \in 1..Len(names) |-> df.dtypes[at(i)]],
             [i \in 1..Len(names) |-> df.cols[at(i)]])

DEFAULT_ROWS == 20

show_cmd(path, file, rows, cols, fmt, delimiter, parsed) ==
    LET loaded_as(r) ==
          LET e1 == <<LoaderEvent("scan_lazy", r)>>
              selected == IF Truthy(cols) THEN selected_columns(cols) ELSE <<>>
              e2 == IF Truthy(cols)
                    THEN e1 \o <<EngineEvent("select", [columns |-> selected])>>
                    ELSE e1
              e3 == e2 \o <<EngineEvent("fetch", [n |-> rows])>>
              lf == IF Truthy(cols) THEN select_columns(r.df, selected) ELSE r.df
              df == head(lf, rows)
          IN IF r.status = "raise" THEN Uncaught(e1, r.exc)
             ELSE IF rows < 0 THEN Uncaught(e3, "OverflowError")
             ELSE IF Truthy(cols) /\ ~select_ok(r.df, selected)
             THEN Uncaught(e3, "EngineError")
             ELSE Return(e3 \o <<render_table(df, rows, DEFAULT_MAX_WIDTH,
                                              Title("Preview", 0, basename(path))),
                                 PrintEvent([rows_shown |-> height(df),
                                             columns |-> Len(df.columns)])>>)
    IN loaded_as(scan_lazy(path, file, fmt, delimiter, parsed))

null_count(col) == Cardinality({i \in 1..Len(col) : col[i].kind = "None"})

SCHEMA_INFER_LENGTH == 10000

\* A variant of schema that counts nulls with one engine call per column
\* after the frame-wide one; C8_LoaderFirst tells the two apart.
schema_cmd_per_column(path, file, fmt, delimiter, parsed) ==
    LET loaded_as(r) ==
          LET e1 == <<LoaderEvent("read_frame", r)>>
              df == r.df
              meta == [j \in 1..Len(df.columns) |->
                         [k |-> df.columns[j],
                          v |-> [dtype |-> df.dtypes[j],
                                 nulls |-> null_count(df.cols[j])]]]
          IN IF r.status = "raise" THEN Uncaught(e1, r.exc)
             ELSE Return(e1 \o [j \in 1..(1 + Len(df.columns)) |->
                                   EngineEvent("null_count", [n |-> j])]
                            \o <<print_kv(Title("Schema", 0, basename(path)), meta)>>)
    IN loaded_as(read_frame(path, file, fmt, delimiter, SCHEMA_INFER_LENGTH, parsed))

schema_cmd(path, file, fmt, delimiter, parsed) ==
    LET loaded_as(r) ==
          LET e1 == <<LoaderEvent("read_frame", r)>>
              df == r.df
              meta == [j \in 1..Len(df.columns) |->
                         [k |-> df.columns[j],
                          v |-> [dtype |-> df.dtypes[j],
                                 nulls |-> null_count(df.cols[j])]]]
          IN IF r.status = "raise" THEN Uncaught(e1, r.exc)
             ELSE Return(e1 \o <<EngineEvent("null_count", [n |-> 0]),
                                 print_kv(Title("Schema", 0, basename(path)), meta)>>)
    IN loaded_as(read_frame(path, file, fmt, delimiter, SCHEMA_INFER_LENGTH, parsed))

columns_cmd(path, file, fmt, delimiter, parsed) ==
    LET loaded_as(r) ==
          LET e1 == <<LoaderEvent("read_frame", r)>>
              df == r.df
              pairs == [j \in 1..Len(df.columns) |->
                          [k |-> df.columns[j], v |-> df.dtypes[j]]]
          IN IF r.status = "raise" THEN Uncaught(e1, r.exc)
             ELSE Return(e1 \o <<print_kv(Title("Columns", 0, basename(path)), pairs)>>)
    IN loaded_as(read_frame(path, file, fmt, delimiter, SCHEMA_INFER_LENGTH, parsed))

\* DataFrame.sample(n, seed), without replacement: the rows at n distinct
\* positions, in an order the engine chooses.
Picks(h, n) ==
    IF n <= 0 THEN {<<>>}
    ELSE {q \in [1..n -> 1..h] : \A i, k \in 1..n : q[i] = q[k] => i = k}

rows_at(df, pick) ==
    Frame(df.columns, df.dtypes,
          [j \in 1..Len(df.cols) |->
             [i \in 1..Len(pick) |-> df.cols[j][pick[i]]]])

Min2(a, b) == IF a < b THEN a ELSE b

DEFAULT_SAMPLE_N == 10

DEFAULT_SEED == 42

\* Optional[int] seed: None, or a number
NoSeed == [given |-> FALSE, value |-> 0]

Seed(v) == [given |-> TRUE, value |-> v]

\* n = min(n, df.height) if df.height else 0
sample_size(n, h) == IF h # 0 THEN Min2(n, h) ELSE 0

sample_cmd(path, file, n, seed, fmt, delimiter, parsed, pick) ==
    LET loaded_as(r) ==
          LET e1 == <<LoaderEvent("read_frame", r)>>
              df == r.df
              n1 == sample_size(n, height(df))
              e2 == e1 \o <<EngineEvent("sample", [n |-> n1, seed |-> seed])>>
          IN IF r.status = "raise" THEN Uncaught(e1, r.exc)
             ELSE IF n1 = 0
             THEN Exit(e1 \o <<PrintEvent([panel |-> "Empty dataset.",
                                           style |-> "red"])>>, 1)
             ELSE IF n1 < 0 THEN Uncaught(e2, "EngineError")
             ELSE Return(e2 \o <<render_table(rows_at(df, pick), n1, DEFAULT_MAX_WIDTH,
                                    Title("Random sample", n1, basename(path)))>>)
    IN loaded_as(read_frame(path, file, fmt, delimiter,
                 DEFAULT_INFER_SCHEMA_LENGTH, parsed))

\* ---- stats
RECURSIVE SumRange(_, _, _)
SumRange(col, lo, hi) ==
    IF lo > hi THEN 0
    ELSE IF lo = hi THEN col[lo].v
    ELSE LET mid == (lo + hi) \div 2
         IN SumRange(col, lo, mid) + SumRange(col, mid + 1, hi)

\* The sum of the numbers of a column
SumCells(col) == SumRange(col, 1, Len(col))

NotNone(c) == c.kind # "None"

\* Expr.mean(), .std(), .min(), .max() over the non-null values of a column
\* (mean and std are exact on the model's columns, which keep them whole).
col_mean(col) ==
    LET xs == SelectSeq(col, NotNone)
    IN IF xs = <<>> THEN NoneCell ELSE FloatCell(SumCells(xs) \div Len(xs))

col_std(col) ==
    LET xs == SelectSeq(col, NotNone)
        n == Len(xs)
        m == SumCells(xs) \div n
        sq == SumCells([i \in 1..n |-> IntCell((xs[i].v - m) * (xs[i].v - m))])
        var == sq \div (n - 1)
    IN IF n <= 1 THEN NoneCell
       ELSE FloatCell(CHOOSE r \in 0..var : r * r <= var /\ (r + 1) * (r + 1) > var)

col_min(col) ==
    LET xs == SelectSeq(col, NotNone)
    IN IF xs = <<>> THEN NoneCell
       ELSE Cell(xs[1].kind, <<>>, SetMin({xs[i].v : i \in 1..Len(xs)}))

col_max(col) ==
    LET xs == SelectSeq(col, NotNone)
    IN IF xs = <<>> THEN NoneCell
       ELSE Cell(xs[1].kind, <<>>, SetMax({xs[i].v : i \in 1..Len(xs)}))

Suffix(names, sfx) == [i \in 1..Len(names) |-> names[i] \o sfx]

\* The positions of the columns whose dtype satisfies test, in column order
RECURSIVE columns_where(_, _, _)
columns_where(df, j, numeric) ==
    IF j > Len(df.columns) THEN <<>>
    ELSE (IF (numeric /\ is_numeric_dtype(df.dtypes[j]))
             \/ (~numeric /\ is_utf8_dtype(df.dtypes[j]))
          THEN <<j>> ELSE <<>>) \o columns_where(df, j + 1, numeric)

\* df.select([pl.len().alias("count"), means, stds, mins, maxs]): one row
summary_frame(df, num) ==
    LET names == [i \in 1..Len(num) |-> df.columns[num[i]]]
        agg(f(_)) == [i \in 1..Len(num) |-> <<f(df.cols[num[i]])>>]
    IN Frame(<< <<"c", "o", "u", "n", "t">> >>
               \o Suffix(names, <<"_", "m", "e", "a", "n">>)
               \o Suffix(names, <<"_", "s", "t", "d">>)
               \o Suffix(names, <<"_", "m", "i", "n">>)
               \o Suffix(names, <<"_", "m", "a", "x">>),
             <<"UInt32">> \o [i \in 1..(4 * Len(num)) |-> "Float64"],
             << <<IntCell(height(df))>> >>
               \o agg(col_mean) \o agg(col_std) \o agg(col_min) \o agg(col_max))

\* The distinct non-null values of a column and how often each occurs
group_values(col) == {col[i] : i \in {k \in 1..Len(col) : col[k].kind # "None"}}

group_len(col, v) == Cardinality({i \in 1..Len(col) : col[i] = v})

\* group_by(c).len().sort("len", descending=True): the groups in every order
\* with non-increasing counts (the engine fixes no order among equal counts).
RECURSIVE SortedOrders(_, _)
SortedOrders(G, col) ==
    IF G = {} THEN {<<>>}
    ELSE LET m == SetMax({group_len(col, g) : g \in G})
             top == {g \in G : group_len(col, g) = m}
         IN UNION {{<<g>> \o rest : rest \in SortedOrders(G \ {g}, col)} : g \in top}

LEN == <<"l", "e", "n">>

freq_frame(df, j, order) ==
    Frame(<<df.columns[j], LEN>>, <<"Utf8", "UInt32">>,
          <<order, [i \in 1..Len(order) |-> IntCell(group_len(df.cols[j], order[i]))]>>)

DEFAULT_TOPK == 5

topk_chain(c) ==
    <<EngineEvent("select", [column |-> c]),
      EngineEvent("drop_nulls", [column |-> c]),
      EngineEvent("group_by", [column |-> c]),
      EngineEvent("len", [column |-> c]),
      EngineEvent("sort", [column |-> c]),
      EngineEvent("head", [column |-> c])>>

\* One pass of the loop over the text columns: the frequency table of the
\* column at position j, rendered when it has rows.
top_values(df, j, topk, order) ==
    LET freq == head(freq_frame(df, j, order), topk)
    IN topk_chain(df.columns[j])
       \o (IF height(freq) # 0
           THEN <<render_table(freq, DEFAULT_MAX_ROWS, DEFAULT_MAX_WIDTH,
                               Title("Top values", topk, df.columns[j]))>>
           ELSE <<>>)

RECURSIVE top_values_loop(_, _, _, _)
top_values_loop(df, str_cols, topk, orders) ==
    IF str_cols = <<>> THEN <<>>
    ELSE top_values(df, Head(str_cols), topk, orders[Head(str_cols)])
         \o top_values_loop(df, Tail(str_cols), topk, orders)

stats_cmd(path, file, topk, fmt, delimiter, parsed, orders) ==
    LET loaded_as(r) ==
          LET e1 == <<LoaderEvent("read_frame", r)>>
              df == r.df
              num_cols == columns_where(df, 1, TRUE)
              str_cols == columns_where(df, 1, FALSE)
              e2 == IF num_cols # <<>>
                    THEN <<EngineEvent("select", [column |-> <<>>]),
                           render_table(summary_frame(df, num_cols), DEFAULT_MAX_ROWS,
                                        DEFAULT_MAX_WIDTH,
                                        Title("Numeric summary", 0, <<>>))>>
                    ELSE <<PrintEvent([panel |-> "No numeric columns detected.",
                                       style |-> "yellow"])>>
          IN IF r.status = "raise" THEN Uncaught(e1, r.exc)
             ELSE Return(e1 \o e2 \o top_values_loop(df, str_cols, topk, orders))
    IN loaded_as(read_frame(path, file, fmt, delimiter,
                 DEFAULT_INFER_SCHEMA_LENGTH, parsed))

\* ---- convert
ALIASES == [jsonl |-> NDJSON, pq |-> PARQUET]

\* {"jsonl": "ndjson", "pq": "parquet"}.get(out_fmt, out_fmt)
alias(out_fmt) ==
    IF out_fmt = JSONL THEN ALIASES.jsonl
    ELSE IF out_fmt = PQ THEN ALIASES.pq
    ELSE out_fmt

\* fmt_dst or os.path.splitext(dst)[1].lower().lstrip("."), then the aliases
destination_format(dst, fmt_dst) ==
    alias(IF Truthy(fmt_dst) THEN fmt_dst
          ELSE lstrip_dot(lower(splitext_ext(dst))))

WriteEvent(writer, dst, separator) ==
    Event(writer, "write", [dst |-> dst, separator |-> separator])

\* A variant of convert that writes csv with a comma whatever the
\* destination; C2_ConvertLoaded tells the two apart.
convert_cmd_loose(src, file, dst, fmt_src, fmt_dst, delimiter, parsed, write_ok) ==
    LET loaded_as(r) ==
          LET e1 == <<LoaderEvent("read_frame", r)>>
          IN IF r.status = "raise" THEN Uncaught(e1, r.exc)
             ELSE Return(e1 \o <<WriteEvent("write_csv", dst, <<COMMA>>),
                                 PrintEvent([wrote |-> dst])>>)
    IN loaded_as(read_frame(src, file, fmt_src, None,
                 DEFAULT_INFER_SCHEMA_LENGTH, parsed))

\* write_ok: whether the engine can write the destination file.
convert_cmd(src, file, dst, fmt_src, fmt_dst, delimiter, parsed, write_ok) ==
    LET loaded_as(r) ==
          LET e1 == <<LoaderEvent("read_frame", r)>>
              out_fmt == destination_format(dst, fmt_dst)
              sep == IF Truthy(delimiter) THEN delimiter ELSE <<COMMA>>
              w == IF out_fmt = CSV THEN WriteEvent("write_csv", dst, sep)
                   ELSE IF out_fmt = PARQUET THEN WriteEvent("write_parquet", dst, None)
                   ELSE WriteEvent("write_ndjson", dst, None)
          IN IF r.status = "raise" THEN Uncaught(e1, r.exc)
             ELSE IF out_fmt \notin {CSV, PARQUET, NDJSON}
             THEN Exit(e1 \o <<PrintEvent([unsupported |-> out_fmt])>>, 2)
             ELSE IF ~write_ok \/ (out_fmt = CSV /\ Len(sep) # 1)
             THEN Uncaught(e1 \o <<w>>, "EngineError")
             ELSE Return(e1 \o <<w, PrintEvent([wrote |-> dst])>>)
    IN loaded_as(read_frame(src, file, fmt_src, None,
                 DEFAULT_INFER_SCHEMA_LENGTH, parsed))

\* ---- info
PLACEHOLDER == <<"U+2014">>

MEM_UNAVAILABLE == <<"-", "-">>

\* mem_ok: whether the columns' size estimate can be computed.
info_cmd(path, file, fmt, delimiter, parsed, mem_ok) ==
    LET resolved(actual_fmt, sniffs, used_delim) ==
          LET e0 == <<Event("detect_format", "resolve", [fmt |-> actual_fmt])>>
              e1 == IF sniffs
                    THEN e0 \o <<Event("sniff_delimiter", "resolve",
                                       [d |-> used_delim])>>
                    ELSE e0
              scanned(r) ==
                LET e2 == e1 \o <<LoaderEvent("scan_lazy", r)>>
                    df == head(r.df, 0)
                    n == height(r.df)
                    e3 == e2 \o <<EngineEvent("fetch", [n |-> 0]),
                                  EngineEvent("select", [column |-> <<>>]),
                                  EngineEvent("collect", [n |-> n])>>
                    pairs ==
                      <<[k |-> "file", v |-> basename(path)],
                        [k |-> "format", v |-> actual_fmt],
                        [k |-> "delimiter",
                         v |-> IF Truthy(used_delim) THEN used_delim
                               ELSE PLACEHOLDER],
                        [k |-> "rows", v |-> str_int(n)],
                        [k |-> "columns", v |-> str_int(Len(df.columns))],
                        [k |-> "mem_est",
                         v |-> IF mem_ok
                               THEN <<"0", ".", "0", "0", " ", "M", "i", "B">>
                               ELSE MEM_UNAVAILABLE]>>
                IN IF r.status = "raise" THEN Uncaught(e2, r.exc)
                   ELSE Return(e3 \o <<print_kv(Title("Info", 0, <<>>), pairs)>>)
          IN IF sniffs /\ file = Unreadable THEN Uncaught(e0, "OSError")
             ELSE scanned(scan_lazy(path, file, fmt, used_delim, parsed))
        sniffed(actual_fmt, sniffs) ==
          resolved(actual_fmt, sniffs,
                   IF sniffs THEN sniff_delimiter(file) ELSE delimiter)
        detected(actual_fmt) ==
          sniffed(actual_fmt, actual_fmt = CSV /\ delimiter = None)
    IN detected(detect_format(path, fmt))

\* ------------------------------------------------------------ command inputs
\* A command's input files: path, content, format and delimiter options.
LoadCase(path, file, fmt, delimiter) ==
    [path |-> path, file |-> file, fmt |-> fmt, delimiter |-> delimiter]

LoadCases ==
    { LoadCase(<<"a", ".", "c", "s", "v">>, << <<"a", COMMA, "b">> >>, None, None),
      LoadCase(<<"d", "/", "a", ".", "p", "q">>, <<>>, None, None),
      LoadCase(<<"a", ".", "t", "x", "t">>, <<>>, <<"x", "m", "l">>, None),
      LoadCase(<<"a", ".", "j", "s", "o", "n", "l">>, Unreadable, None, None),
      LoadCase(<<"a", ".", "c", "s", "v">>, << <<"a", SEMI, "b">> >>, None, <<SEMI>>) }

CmdFrames == {IntFrame(h) : h \in 0..MaxHeight} \cup {MixedFrame}

ParseOutcomes == {Parsed(df) : df \in CmdFrames} \cup {ParseError}

StatsLoadCases ==
    { LoadCase(<<"a", ".", "c", "s", "v">>, << <<"a", COMMA, "b">> >>, None, None),
      LoadCase(<<"a", ".", "t", "x", "t">>, <<>>, <<"x", "m", "l">>, None) }

X == StrCell(<<"x">>)

Y == StrCell(<<"y">>)

TinyCols == SeqsUpTo({X, Y, NoneCell}, MaxTinyCol)

\* A column with d distinct values, the i-th of them i times, and one null
RECURSIVE RampCol(_)
RampCol(d) ==
    IF d = 0 THEN <<NoneCell>>
    ELSE RampCol(d - 1) \o [k \in 1..d |-> StrCell(<<"v">> \o Digits(d))]

SevenCol(h) == [i \in 1..h |-> IntCell(7)]

TextFrame(col) == Frame(<< <<"s">> >>, <<"Utf8">>, <<col>>)

NumTextFrame(col) ==
    Frame(<< <<"n">>, <<"s">> >>, <<"Int64", "Utf8">>, <<SevenCol(Len(col)), col>>)

TwoTextFrame(c1, c2) ==
    Frame(<< <<"s">>, <<"d">>, <<"t">> >>, <<"Utf8", "Decimal(10,2)", "Utf8">>,
          <<c1, SevenCol(Len(c1)), c2>>)

StatsFrames ==
    {TextFrame(c) : c \in TinyCols}
    \cup {NumTextFrame(c) : c \in TinyCols}
    \cup {TextFrame(RampCol(d)) : d \in 0..MaxDistinct}
    \cup {NumTextFrame(RampCol(d)) : d \in {1, MaxDistinct}}
    \cup {TwoTextFrame(c, <<X, Y>>) : c \in {q \in TinyCols : Len(q) = 2}}
    \cup {EmptyFrame,
          Frame(<< <<"x">>, <<"k">> >>, <<"Float64", "Utf8">>,
                << <<FloatCell(5), NoneCell>>, <<X, X>> >>),
          Frame(<< <<"n">> >>, <<"Int64">>, << <<IntCell(0), IntCell(2), IntCell(4)>> >>),
          Frame(<< <<"b">> >>, <<"Boolean">>, << <<StrCell(<<"T">>)>> >>)}

\* One sorted order of the groups for each text column of the frame
OrderChoices(df) ==
    LET idx == {j \in 1..Len(df.columns) : is_utf8_dtype(df.dtypes[j])}
        of(j) == SortedOrders(group_values(df.cols[j]), df.cols[j])
    IN {f \in [idx -> UNION {of(j) : j \in idx}] : \A j \in idx : f[j] \in of(j)}

\* ------------------------------------------------------------ state machine
Init ==
    /\ pc = "idle"
    /\ op = "none"
    /\ args = <<>>
    /\ ret = <<>>
    /\ loaded = [Raised("", <<>>, "", None) EXCEPT !.status = "none"]
    /\ trace = <<>>
    /\ exit_code = -1

\* ---- direct calls of the functions of utils.py
DetectFormat ==
    /\ pc = "idle"
    /\ \E path \in Paths, fmt \in Overrides :
        /\ pc' = "done"
        /\ op' = "detect_format"
        /\ args' = [path |-> path, fmt |-> fmt]
        /\ ret' = detect_format(path, fmt)
        /\ UNCHANGED <<loaded, trace, exit_code>>

SniffDelimiter ==
    /\ pc = "idle"
    /\ \E file \in Files :
        /\ pc' = "done"
        /\ op' = "sniff_delimiter"
        /\ args' = [file |-> file]
        /\ ret' = sniff_delimiter(file)
        /\ UNCHANGED <<loaded, trace, exit_code>>

ReadFrame ==
    /\ pc = "idle"
    /\ \E path \in LoaderPaths, fmt \in Overrides, file \in LoaderFiles,
       delimiter \in {None, <<SEMI>>}, parsed \in {Parsed(EmptyFrame), ParseError} :
        /\ pc' = "done"
        /\ op' = "read_frame"
        /\ args' = [path |-> path, fmt |-> fmt, file |-> file,
                    delimiter |-> delimiter, parsed |-> parsed]
        /\ loaded' = read_frame(path, file, fmt, delimiter,
                                DEFAULT_INFER_SCHEMA_LENGTH, parsed)
        /\ UNCHANGED <<ret, trace, exit_code>>

ScanLazy ==
    /\ pc = "idle"
    /\ \E path \in LoaderPaths, fmt \in Overrides, file \in LoaderFiles,
       delimiter \in {None, <<SEMI>>}, parsed \in {Parsed(EmptyFrame), ParseError} :
        /\ pc' = "done"
        /\ op' = "scan_lazy"
        /\ args' = [path |-> path, fmt |-> fmt, file |-> file,
                    delimiter |-> delimiter, parsed |-> parsed]
        /\ loaded' = scan_lazy(path, file, fmt, delimiter, parsed)
        /\ UNCHANGED <<ret, trace, exit_code>>

ReprCell ==
    /\ pc = "idle"
    /\ \E val \in CellValues :
        /\ pc' = "done"
        /\ op' = "repr_cell"
        /\ args' = [val |-> val]
        /\ ret' = repr_cell(val)
        /\ UNCHANGED <<loaded, trace, exit_code>>

RenderTable ==
    /\ pc = "idle"
    /\ \E df \in RenderFrames, max_rows \in (-2)..MaxRowsArg,
       title \in {Title("", 0, <<>>), Title("t", 0, <<>>)} :
        /\ pc' = "done"
        /\ op' = "render_table"
        /\ args' = [df |-> df, max_rows |-> max_rows, title |-> title]
        /\ trace' = <<render_table(df, max_rows, DEFAULT_MAX_WIDTH, title)>>
        /\ UNCHANGED <<ret, loaded, exit_code>>

\* ---- the commands: one run each, from the arguments to the exit status
Show ==
    /\ pc = "idle"
    /\ \E lc \in LoadCases, parsed \in ParseOutcomes,
       rows \in {-1, 0, 2, DEFAULT_ROWS},
       cols \in {None, <<>>, <<"a">>, <<" ", "a", COMMA>>, <<"z">>, <<COMMA>>,
                 <<"l", COMMA, "k">>} :
        LET out == show_cmd(lc.path, lc.file, rows, cols, lc.fmt, lc.delimiter, parsed)
        IN /\ pc' = "done"
           /\ op' = "show"
           /\ args' = [lc |-> lc, parsed |-> parsed, rows |-> rows, cols |-> cols]
           /\ trace' = out.trace
           /\ exit_code' = out.exit_code
           /\ UNCHANGED <<ret, loaded>>

Schema ==
    /\ pc = "idle"
    /\ \E lc \in LoadCases, parsed \in ParseOutcomes :
        LET out == schema_cmd(lc.path, lc.file, lc.fmt, lc.delimiter, parsed)
        IN /\ pc' = "done"
           /\ op' = "schema"
           /\ args' = [lc |-> lc, parsed |-> parsed]
           /\ trace' = out.trace
           /\ exit_code' = out.exit_code
           /\ UNCHANGED <<ret, loaded>>

Stats ==
    /\ pc = "idle"
    /\ \E lc \in StatsLoadCases, df \in StatsFrames, topk \in (-1)..MaxTopK :
        \E orders \in OrderChoices(df) :
            LET out == stats_cmd(lc.path, lc.file, topk, lc.fmt, lc.delimiter,
                                 Parsed(df), orders)
            IN /\ pc' = "done"
               /\ op' = "stats"
               /\ args' = [lc |-> lc, parsed |-> Parsed(df), topk |-> topk]
               /\ trace' = out.trace
               /\ exit_code' = out.exit_code
               /\ UNCHANGED <<ret, loaded>>

Sample ==
    /\ pc = "idle"
    /\ \E lc \in LoadCases, parsed \in ParseOutcomes,
       n \in (-1)..MaxSampleN \cup {DEFAULT_SAMPLE_N}, seed \in {NoSeed, Seed(DEFAULT_SEED)} :
        \E pick \in Picks(height(parsed.df), sample_size(n, height(parsed.df))) :
            LET out == sample_cmd(lc.path, lc.file, n, seed, lc.fmt, lc.delimiter,
                                  parsed, pick)
            IN /\ pc' = "done"
               /\ op' = "sample"
               /\ args' = [lc |-> lc, parsed |-> parsed, n |-> n, seed |-> seed]
               /\ trace' = out.trace
               /\ exit_code' = out.exit_code
               /\ UNCHANGED <<ret, loaded>>

Columns ==
    /\ pc = "idle"
    /\ \E lc \in LoadCases, parsed \in ParseOutcomes :
        LET out == columns_cmd(lc.path, lc.file, lc.fmt, lc.delimiter, parsed)
        IN /\ pc' = "done"
           /\ op' = "columns"
           /\ args' = [lc |-> lc, parsed |-> parsed]
           /\ trace' = out.trace
           /\ exit_code' = out.exit_code
           /\ UNCHANGED <<ret, loaded>>

ConvertDsts == {<<"o">> \o e : e \in Exts}

Convert ==
    /\ pc = "idle"
    /\ \E lc \in LoadCases, parsed \in {Parsed(IntFrame(2)), ParseError},
       dst \in ConvertDsts, fmt_dst \in Overrides,
       delimiter \in {None, <<>>, <<SEMI>>, <<"|", "|">>}, write_ok \in BOOLEAN :
        LET out == convert_cmd(lc.path, lc.file, dst, lc.fmt, fmt_dst, delimiter,
                               parsed, write_ok)
        IN /\ pc' = "done"
           /\ op' = "convert"
           /\ args' = [src |-> lc.path, file |-> lc.file, dst |-> dst,
                       fmt_src |-> lc.fmt, fmt_dst |-> fmt_dst,
                       delimiter |-> delimiter, parsed |-> parsed,
                       write_ok |-> write_ok]
           /\ trace' = out.trace
           /\ exit_code' = out.exit_code
           /\ UNCHANGED <<ret, loaded>>

InfoPaths == { <<"a", ".", "c", "s", "v">>, <<"a", ".", "T", "S", "V">>,
               <<"d", "/", "a", ".", "p", "q">>, <<"a", ".", "t", "x", "t">> }

InfoFmts == { None, CSV, <<"P", "a", "r", "q", "u", "e", "t">>, NDJSON,
              <<"x", "m", "l">> }

Info ==
    /\ pc = "idle"
    /\ \E path \in InfoPaths, file \in LoaderFiles, fmt \in InfoFmts,
       delimiter \in Delimiters, parsed \in {Parsed(IntFrame(2)), ParseError},
       mem_ok \in BOOLEAN :
        LET out == info_cmd(path, file, fmt, delimiter, parsed, mem_ok)
        IN /\ pc' = "done"
           /\ op' = "info"
           /\ args' = [path |-> path, file |-> file, fmt |-> fmt,
                       delimiter |-> delimiter, parsed |-> parsed,
                       mem_ok |-> mem_ok]
           /\ trace' = out.trace
           /\ exit_code' = out.exit_code
           /\ UNCHANGED <<ret, loaded>>

Next ==
    \/ DetectFormat
    \/ SniffDelimiter
    \/ ReadFrame
    \/ ScanLazy
    \/ ReprCell
    \/ RenderTable
    \/ Show
    \/ Schema
    \/ Stats
    \/ Sample
    \/ Columns
    \/ Convert
    \/ Info

Spec == Init /\ [][Next]_vars

\* ------------------------------------------------------------ properties
Commands == {"show", "schema", "stats", "sample", "columns", "convert", "info"}

\* The positions of the trace holding an event of one of the kinds
At(kinds) == {i \in 1..Len(trace) : trace[i].kind \in kinds}

\* The run is one of a command whose Frame Loader call returned a frame.
FrameLoaded == \E i \in At({"loader"}) : trace[i].data.status = "ok"

Dot(t) == <<".">> \o t

\* C4: detect_format returns the lowercased override whenever the override is
\* non-empty, whatever the path; with no override (None or "") the result is
\* decided by the extension compared without regard to case: .csv/.tsv give
\* csv, .jsonl/.ndjson give ndjson, .parquet/.pq give parquet, anything else
\* (no extension included) gives csv.
C4_DetectFormat ==
    op = "detect_format" =>
        LET e == lower(splitext_ext(args.path))
        IN IF args.fmt # None /\ Len(args.fmt) > 0
           THEN ret = lower(args.fmt)
           ELSE /\ e \in {Dot(CSV), Dot(TSV)} => ret = CSV
                /\ e \in {Dot(JSONL), Dot(NDJSON)} => ret = NDJSON
                /\ e \in {Dot(PARQUET), Dot(PQ)} => ret = PARQUET
                /\ e \notin {Dot(t) : t \in SixTokens} => ret = CSV

C4_Witness ==
    /\ op = "detect_format"
    /\ args.fmt = None
    /\ splitext_ext(args.path) = <<".", "P", "Q">>
    /\ ret = PARQUET

\* The first line of a file that is not empty or whitespace-only, as it
\* stands in the file; <<>> when there is none.
FirstNonBlank(file) ==
    LET nb == {i \in 1..Len(file) : \E k \in 1..Len(file[i]) : ~IsSpace(file[i][k])}
    IN IF nb = {} THEN <<>> ELSE file[SetMin(nb)]

\* C5: sniff_delimiter returns the candidate among comma, tab, semicolon that
\* occurs strictly more often than both others in the first non-blank line
\* of the file, however many blank lines precede it, and comma when that
\* line holds no candidate or the file has no non-blank line.
C5_SniffMajority ==
    op = "sniff_delimiter" =>
        LET line == FirstNonBlank(args.file)
            cands == {COMMA, TAB, SEMI}
        IN /\ (\A c \in cands : count(line, c) = 0) => ret = <<COMMA>>
           /\ \A c \in cands :
                (\A o \in cands \ {c} : count(line, c) > count(line, o)) => ret = <<c>>

\* C10: for a compound value (list, tuple, set, dict) repr_cell returns the
\* string form unchanged when it has at most 80 characters, and otherwise its
\* first 77 characters followed by "..."; the text never exceeds 80 characters.
C10_CompoundCell ==
    (op = "repr_cell" /\ args.val.kind \in CompoundKinds) =>
        LET sv == args.val.s
        IN /\ Len(sv) <= 80 => ret = sv
           /\ Len(sv) > 80 =>
                /\ Len(ret) = 80
                /\ \A i \in 1..77 : ret[i] = sv[i]
                /\ \A i \in 78..80 : ret[i] = "."
           /\ Len(ret) <= 80

C10_Witness ==
    /\ op = "repr_cell"
    /\ args.val.kind = "dict"
    /\ Len(args.val.s) = 81
    /\ Len(ret) = 80
    /\ ret[80] = "."

\* The rows of the table are the display texts of the first rows of the frame.
LeadingRows(df, rows) ==
    /\ Len(rows) <= height(df)
    /\ \A i \in 1..Len(rows) :
         rows[i] = [j \in 1..Len(df.cols) |-> repr_cell(df.cols[j][i])]

\* C6 as stated: for every frame and every integer max_rows, render_table
\* adds at most max_rows rows, and they are the leading rows of the frame in
\* their original order.
C6_AtMostMaxRows ==
    op = "render_table" =>
        /\ Len(trace[1].data.rows) <= args.max_rows
        /\ LeadingRows(args.df, trace[1].data.rows)

\* C6 amended: the rows added are always the leading rows of the frame in
\* their original order, and there are at most max_rows of them whenever
\* max_rows >= 0 (no table has fewer than zero rows).
C6_AtMostMaxRowsNonNegative ==
    op = "render_table" =>
        /\ args.max_rows >= 0 => Len(trace[1].data.rows) <= args.max_rows
        /\ LeadingRows(args.df, trace[1].data.rows)

C6_Witness ==
    /\ op = "render_table"
    /\ args.max_rows = 2
    /\ height(args.df) = 4
    /\ Len(trace[1].data.rows) = 2
    /\ trace[1].data.rows[2] = <<<<"2">>>>

\* C1: for every frame height h >= 0 and every integer n, sample uses
\* min(n, h) as the effective size; when that is zero it prints the error
\* notice, renders no table and exits with status 1; in every other case it
\* draws a sample of that size, renders it and exits with status 0.
C1_SampleClamp ==
    (op = "sample" /\ FrameLoaded) =>
        LET h == height(args.parsed.df)
            eff == Min2(args.n, h)
        IN IF eff = 0
           THEN /\ exit_code = 1
                /\ \E i \in At({"print"}) : trace[i].data.panel = "Empty dataset."
                /\ At({"render"}) = {}
           ELSE /\ exit_code = 0
                /\ \E i \in At({"engine"}) :
                     trace[i].ev = "sample" /\ trace[i].data.n = eff
                /\ \E i \in At({"render"}) : Len(trace[i].data.rows) = eff

\* The writer convert calls for a destination format
WriterOf(out_fmt) ==
    IF out_fmt = CSV THEN "write_csv"
    ELSE IF out_fmt = PARQUET THEN "write_parquet"
    ELSE "write_ndjson"

\* What convert does about the destination, given the delimiter that counts
\* as "none given": an unsupported format is reported with exit status 2 and
\* nothing written; a supported one gets exactly one call of its writer.
ConvertDestination(no_delimiter) ==
    LET out_fmt == destination_format(args.dst, args.fmt_dst)
        w == At({"write"})
    IN IF out_fmt \notin {CSV, PARQUET, NDJSON}
       THEN /\ exit_code = 2
            /\ \E i \in At({"print"}) : trace[i].data = [unsupported |-> out_fmt]
            /\ w = {}
       ELSE /\ Cardinality(w) = 1
            /\ \A i \in w :
                 /\ trace[i].ev = WriterOf(out_fmt)
                 /\ trace[i].data.dst = args.dst
                 /\ out_fmt = CSV =>
                      trace[i].data.separator =
                        (IF args.delimiter \in no_delimiter THEN <<COMMA>>
                         ELSE args.delimiter)

\* C2 as stated: for every convert invocation, an unresolved destination
\* format gives the error, exit status 2 and no write; a resolved one gives
\* exactly one call of that format's writer on the destination path (the csv
\* writer with the given delimiter, or comma when none is given).
C2_ConvertEveryInvocation == op = "convert" => ConvertDestination({None})

\* C2 amended: the same, for every convert invocation whose source frame
\* loads, the csv writer taking comma when the delimiter is absent or empty.
C2_ConvertLoaded ==
    (op = "convert" /\ FrameLoaded) => ConvertDestination({None, <<>>})

C2_Witness ==
    /\ op = "convert"
    /\ FrameLoaded
    /\ args.fmt_dst = <<"x", "m", "l">>
    /\ exit_code = 2
    /\ At({"write"}) = {}

\* The reader the Frame Loader calls for a token's format kind
KindOf(t) ==
    IF t \in {CSV, TSV} THEN "_csv"
    ELSE IF t \in {NDJSON, JSONL} THEN "_ndjson"
    ELSE "_parquet"

Prefix == IF op = "read_frame" THEN "read" ELSE "scan"

\* The loader reached the reader of kind k (or the open() before read_csv).
ReachedReader(k) ==
    /\ loaded.exc # "ValueError"
    /\ loaded.reader \in {Prefix \o k, "open"}
    /\ loaded.reader = "open" => k = "_csv"

\* The token the destination of a convert run is given by
DestinationToken ==
    IF Truthy(args.fmt_dst) THEN args.fmt_dst
    ELSE lstrip_dot(lower(splitext_ext(args.dst)))

\* C3 as stated: each of csv, tsv, ndjson, jsonl, parquet, pq selects its
\* format kind as file extension and as explicit override alike: the loader
\* calls the kind's reader and does not raise the unsupported-format error,
\* and convert accepts each as destination extension or override.
C3_SixTokens ==
    /\ (op \in {"read_frame", "scan_lazy"} /\ args.fmt \in SixTokens) =>
          ReachedReader(KindOf(args.fmt))
    /\ (op \in {"read_frame", "scan_lazy"} /\ ~Truthy(args.fmt)
        /\ \E t \in SixTokens : lower(splitext_ext(args.path)) = Dot(t)) =>
          ReachedReader(KindOf(lstrip_dot(lower(splitext_ext(args.path)))))
    /\ (op = "convert" /\ FrameLoaded /\ DestinationToken \in SixTokens) =>
          /\ exit_code # 2
          /\ \E i \in At({"write"}) :
               trace[i].ev = "write" \o KindOf(DestinationToken)

\* C3 amended: as file extension (no override) each of the six tokens selects
\* its kind; as override only csv, ndjson and parquet do, while tsv, jsonl
\* and pq raise the unsupported-format error; convert accepts csv, ndjson,
\* jsonl, parquet and pq as destination extension or override and rejects
\* tsv with exit status 2.
C3_TokensByExtension ==
    /\ (op \in {"read_frame", "scan_lazy"} /\ args.fmt \in {CSV, NDJSON, PARQUET}) =>
          ReachedReader(KindOf(args.fmt))
    /\ (op \in {"read_frame", "scan_lazy"} /\ args.fmt \in {TSV, JSONL, PQ}) =>
          loaded.status = "raise" /\ loaded.exc = "ValueError"
    /\ (op \in {"read_frame", "scan_lazy"} /\ ~Truthy(args.fmt)
        /\ \E t \in SixTokens : lower(splitext_ext(args.path)) = Dot(t)) =>
          ReachedReader(KindOf(lstrip_dot(lower(splitext_ext(args.path)))))
    /\ (op = "convert" /\ FrameLoaded /\ DestinationToken \in SixTokens \ {TSV}) =>
          /\ exit_code # 2
          /\ \E i \in At({"write"}) :
               trace[i].ev = "write" \o KindOf(DestinationToken)
    /\ (op = "convert" /\ FrameLoaded /\ DestinationToken = TSV) =>
          exit_code = 2 /\ At({"write"}) = {}

C3_Witness ==
    /\ op = "read_frame"
    /\ args.fmt = JSONL
    /\ args.path = <<"f", ".", "j", "s", "o", "n", "l">>
    /\ loaded.exc = "ValueError"

\* The value print_kv reports under a key
Reported(key) ==
    LET rep == trace[CHOOSE i \in At({"report"}) : TRUE].data.rows
    IN rep[CHOOSE i \in 1..Len(rep) : rep[i].k = key].v

\* C7: what info reports is what the loader used: the format is the one the
\* loader scans with; for delimited text the delimiter is the separator the
\* loader passes to the reader; for any other format the placeholder is
\* reported, whatever --delimiter was passed.
C7_InfoReports ==
    (op = "info" /\ At({"report"}) # {}) =>
        LET ld == trace[CHOOSE i \in At({"loader"}) : TRUE].data
        IN /\ Reported("format") = ld.fmt
           /\ ld.fmt = CSV => Reported("delimiter") = ld.separator
           /\ ld.fmt # CSV => Reported("delimiter") = PLACEHOLDER

\* A run of a command that ended with exit status 0
Successful == op \in Commands /\ exit_code = 0

Before(A, B) == \A i \in A, k \in B : i < k

\* C8 as stated: in every successful run of every command the inputs are
\* resolved, then the Frame Loader is called, then at most one engine
\* aggregation/selection operation, then the Table Renderer or the Key-Value
\* Reporter; no run issues two or more engine operations.
C8_OneEngineOp ==
    Successful =>
        LET L == At({"loader"})
            E == At({"engine"})
            R == At({"render", "report"})
        IN /\ Cardinality(L) = 1
           /\ Before(At({"resolve"}), L)
           /\ Cardinality(E) <= 1
           /\ Before(L, E)
           /\ R # {}
           /\ Before(L, R)
           /\ Before(E, R)

TextColumns(df) == {j \in 1..Len(df.columns) : is_utf8_dtype(df.dtypes[j])}

NumericColumns(df) == {j \in 1..Len(df.columns) : is_numeric_dtype(df.dtypes[j])}

\* C8 amended: every successful run calls the Frame Loader exactly once,
\* after resolving inputs and before every engine operation, rendering,
\* report or write.  schema, sample and columns issue at most one engine
\* operation, before their one renderer/reporter call; show issues up to two
\* (column selection, fetch) and info three (fetch, select, collect) before
\* theirs; stats issues one summary selection when there are numeric columns
\* and a six-call group-count chain per text column, with tables rendered in
\* between; convert calls one writer and neither renderer nor reporter.
C8_LoaderFirst ==
    Successful =>
        LET L == At({"loader"})
            E == At({"engine"})
            R == At({"render", "report"})
            W == At({"write"})
        IN /\ Cardinality(L) = 1
           /\ Before(At({"resolve"}), L)
           /\ Before(L, E \cup R \cup W \cup At({"print"}))
           /\ op \in {"schema", "sample", "columns"} =>
                Cardinality(E) <= 1 /\ Cardinality(R) = 1 /\ Before(E, R)
           /\ op = "show" =>
                Cardinality(E) <= 2 /\ Cardinality(R) = 1 /\ Before(E, R)
           /\ op = "info" =>
                Cardinality(E) = 3 /\ Cardinality(R) = 1 /\ Before(E, R)
           /\ op = "convert" => E = {} /\ R = {} /\ Cardinality(W) = 1
           /\ op = "stats" =>
                LET df == args.parsed.df
                    summary == IF NumericColumns(df) = {} THEN 0 ELSE 1
                IN /\ Cardinality(E) = summary + 6 * Cardinality(TextColumns(df))
                   /\ Cardinality(R) <= summary + Cardinality(TextColumns(df))

C8_Witness ==
    /\ op = "stats"
    /\ exit_code = 0
    /\ \E r \in At({"render"}), e \in At({"engine"}) : r < e
    /\ Cardinality(At({"engine"})) = 13

\* The tables stats renders for the top values of the column named c
TopTables(c) ==
    {i \in At({"render"}) :
        trace[i].data.title.text = "Top values" /\ trace[i].data.title.name = c}

\* C9: for every stats run with top-k value k >= 1 and every text column with
\* d distinct non-null values, the table rendered for the column shows
\* exactly min(k, d) rows, the most frequent values in descending count
\* order, and no table is rendered for it when d = 0.
C9_TopKRows ==
    (op = "stats" /\ FrameLoaded /\ args.topk >= 1) =>
        \A j \in TextColumns(args.parsed.df) :
            LET col == args.parsed.df.cols[j]
                G == group_values(col)
                T == TopTables(args.parsed.df.columns[j])
            IN IF G = {} THEN T = {}
               ELSE /\ Cardinality(T) = 1
                    /\ \A i \in T :
                         LET rows == trace[i].data.rows
                             val(r) == CHOOSE v \in G : v.s = rows[r][1]
                             shown == {val(r) : r \in 1..Len(rows)}
                         IN /\ Len(rows) = Min2(args.topk, Cardinality(G))
                            /\ \A r \in 1..Len(rows) :
                                 /\ \E v \in G : v.s = rows[r][1]
                                 /\ rows[r][2] = str_int(group_len(col, val(r)))
                            /\ \A r \in 1..(Len(rows) - 1) :
                                 group_len(col, val(r)) >= group_len(col, val(r + 1))
                            /\ \A v \in G \ shown, w \in shown :
                                 group_len(col, w) >= group_len(col, v)

====
